---- MODULE Spec2Model ----
(***************************************************************************)
(* State-machine model of frontend/src/App.js (India Air Quality Map):     *)
(* the viewport-driven station fetch (App.fetchStations, MapEventHandler), *)
(* the debounced two-source search (SearchBar) and the location selection  *)
(* (App.handleSelectLocation).  Every await is a suspension point: the     *)
(* part of an async function before it is one action, each outcome of the  *)
(* awaited request another.  Coordinates are integers in 1e-4 degrees.     *)
(***************************************************************************)
EXTENDS Integers, Sequences, FiniteSets, Bags, TLC

(* ------------------------------ bounds -------------------------------- *)
\* settle events (the one at mount included) in one run
MaxFetches == 3
\* searchLocation calls that reach the primary request in one run
MaxSearches == 2
\* inputs to the search bar (text changes and result clicks) in one run
MaxInputs == 4
\* clicks on the heatmap button
MaxToggles == 2
\* how far beyond the colour scale [0, 1000] the rendered AQI values reach
AqiPad == 20
\* length of the station lists handed to the heatmap transform
MaxStations == 2

(* -------------------------- program constants ------------------------- *)
DEBOUNCE_MS == 500
MIN_QUERY_LEN == 2
NOMINATIM_LIMIT == 5
SELECT_ZOOM == 11
INITIAL_ZOOM == 5

INITIAL_CENTER == <<205937, 789629>>
COUNTRY_CODES == "in"
COUNTRY_SUFFIX == ", India"
USER_AGENT == "AQI-Map-India-App"

MSG_FETCH_FAILED == "Failed to load AQI data"
MSG_SEARCH_FAILED == "Search failed. Please try again."
MSG_NO_DATA == "No AQI data available for this location"
MSG_SHOWING == "Showing AQI for "

(* ------------------------- environment inputs ------------------------- *)
\* stations the bounds-query and point-query services can report
St1 == [uid |-> 1, name |-> "Delhi", lat |-> 286139, lon |-> 772090, aqi |-> 250]
St2 == [uid |-> 2, name |-> "Agra", lat |-> 271767, lon |-> 780081, aqi |-> 620]

\* response.data of GET /aqi/bounds: with a station list, or without the field
BoundsData == { [stations |-> <<>>],
                [stations |-> <<St2, St1>>],
                [error |-> "upstream"] }

\* viewports map.getBounds() can report; InitialBox is the one at mount
InitialBox == [ne |-> [lat |-> 350000, lng |-> 970000], sw |-> [lat |-> 60000, lng |-> 680000]]
MovedBox == [ne |-> [lat |-> 290000, lng |-> 780000], sw |-> [lat |-> 280000, lng |-> 770000]]
Boxes == {InitialBox, MovedBox}

\* input texts the user can produce: empty, too short, long enough to search
Texts == {"", "d", "de"}

\* matches of GET /aqi/search, as the service ranks them
Hit1 == [uid |-> 1, name |-> "Delhi", lat |-> 286139, lon |-> 772090, aqi |-> "250"]
Hit2 == [uid |-> 2, name |-> "Dehradun", lat |-> 303165, lon |-> 780322, aqi |-> "-"]
SearchData == { [results |-> <<>>],
                [results |-> <<Hit2, Hit1>>],
                [status |-> "nope"] }

\* candidates of the Nominatim geocoder: coordinates arrive as strings
Place1 == [place_id |-> 7, display_name |-> "Dewas, Madhya Pradesh, India",
           lat |-> "22.9676", lon |-> "76.0534"]
GeocodeData == { [places |-> <<>>], [places |-> <<Place1>>] }

\* response.data of GET /aqi/geo: a station, or an empty body
NoData == [empty |-> TRUE]
GeoData == {St1, NoData}

(* ------------------------------- state -------------------------------- *)
VARIABLES
  mounted,          \* the component tree is mounted and its effects have run
  view,             \* the bounds map.getBounds() reports
  stations,         \* App state: stations
  selectedStation,  \* App state: selectedStation
  mapCenter,        \* App state: mapCenter
  mapZoom,          \* App state: mapZoom
  loading,          \* App state: loading
  query,            \* SearchBar state: query
  results,          \* SearchBar state: results
  isSearching,      \* SearchBar state: isSearching
  showResults,      \* SearchBar state: showResults
  timers,           \* pending setTimeout callbacks of the debounce effect
  fetches,          \* fetchStations calls suspended at the bounds-query
  searches,         \* searchLocation calls suspended at a search request
  lookups,          \* handleSelectLocation calls suspended at the point query
  sent,             \* every HTTP request issued, in order
  toasts,           \* notifications raised (a bag of messages)
  unhandled,        \* rejections that escaped an async handler
  hist,             \* history: per task id, its kind, argument and outcome
  lastFetch,        \* history: the most recent completion of a bounds-query
  lastSearch,       \* history: the most recent completion of a search
  lastGeo,          \* history: the most recent completion of a point query
  lastOkFetch,      \* history: the last bounds-query that delivered a list
  prevStations,     \* history: stations before the last bounds completion
  resultsBy,        \* history: id of the search task that last wrote results
  calls,            \* history: number of searchLocation calls
  lastCall,         \* history: argument of the last searchLocation call
  keys,             \* history: number of input changes made by the user
  lastEdit,         \* history: what last changed query
  sinceEdit,        \* history: ms elapsed since query last changed
  settles,          \* history: the settle events fired, with the bounds read at each
  afterSelect,      \* history: a result was clicked and the input not touched since
  showHeatmap,      \* App state: showHeatmap
  heatmapLayerRef,  \* HeatmapLayer: heatmapLayerRef.current
  mapLayers,        \* the heat layers attached to the Leaflet map
  cleanupArmed,     \* HeatmapLayer: its last effect run returned a cleanup
  layerSeq,         \* history: number of heat layers created
  toggles,          \* history: number of clicks on the heatmap button
  aqi,              \* the value handed to getAQIColor / getAQICategory
  color,            \* what getAQIColor returned for it
  category,         \* what getAQICategory returned for it
  heatIn,           \* the station list handed to the heatmap transform
  heatOut           \* the heat points it returned

vars == << mounted, view, stations, selectedStation, mapCenter, mapZoom, loading,
           query, results, isSearching, showResults, timers, fetches, searches,
           lookups, sent, toasts, unhandled, hist, lastFetch, lastSearch, lastGeo,
           lastOkFetch,
           prevStations, resultsBy, calls, lastCall, keys, lastEdit, sinceEdit,
           settles, afterSelect, showHeatmap, heatmapLayerRef, mapLayers, cleanupArmed,
           layerSeq, toggles, aqi, color, category, heatIn, heatOut >>

mapVars == << view, stations, loading, fetches, lastFetch, lastOkFetch, prevStations >>
searchVars == << query, results, isSearching, showResults, timers, searches,
                 lastSearch, resultsBy, calls, lastCall, keys, lastEdit, sinceEdit >>
selectVars == << selectedStation, mapCenter, mapZoom, lookups, lastGeo >>
heatVars == << showHeatmap, heatmapLayerRef, mapLayers, cleanupArmed, layerSeq, toggles >>
renderVars == << aqi, color, category, heatIn, heatOut >>

\* heatmapLayerRef.current === null
NoLayer == [id |-> 0, points |-> <<>>]
\* values of the render outputs before the function has run
NoColor == <<>>
NoCategory == [label |-> "", description |-> ""]
NoPoints == [built |-> FALSE, points |-> <<>>]

\* AQI values rendered: the colour scale and a margin on both sides
AqiInputs == (0 - AqiPad)..(1000 + AqiPad)
\* AQI readings of the stations handed to the heatmap transform
HeatAqis == {0, 1, 125, 250, 499, 500, 501, 750, 1000, 1001}
HeatStations == {[lat |-> 280000 + a, lon |-> 770000, aqi |-> a] : a \in HeatAqis}
StationLists == UNION {[1..n -> HeatStations] : n \in 0..MaxStations}

NoTask == [id |-> 0, kind |-> "none", ok |-> FALSE, via |-> "none", data |-> NoData]

NextId == Len(hist) + 1
\* number of tasks of this kind issued so far
Issued(kind) == Cardinality({i \in 1..Len(hist) : hist[i].kind = kind})
\* fewer than max tasks of this kind were issued so far
CanIssue(kind, max) == Issued(kind) < max
\* the user has made fewer than MaxInputs inputs to the search bar
CanInput == keys + Issued("geo") < MaxInputs

\* the application after construction, before its effects have run
InitApp ==
  /\ mounted = FALSE
  /\ view = InitialBox
  /\ stations = <<>>
  /\ selectedStation = NoData
  /\ mapCenter = INITIAL_CENTER
  /\ mapZoom = INITIAL_ZOOM
  /\ loading = FALSE
  /\ query = ""
  /\ results = <<>>
  /\ isSearching = FALSE
  /\ showResults = FALSE
  /\ timers = {}
  /\ fetches = {}
  /\ searches = {}
  /\ lookups = {}
  /\ sent = <<>>
  /\ toasts = EmptyBag
  /\ unhandled = 0
  /\ hist = <<>>
  /\ lastFetch = NoTask
  /\ lastSearch = NoTask
  /\ lastGeo = NoTask
  /\ lastOkFetch = NoTask
  /\ prevStations = <<>>
  /\ resultsBy = 0
  /\ calls = 0
  /\ lastCall = ""
  /\ keys = 0
  /\ lastEdit = "mount"
  /\ sinceEdit = 0
  /\ settles = <<>>
  /\ afterSelect = FALSE
  /\ showHeatmap = FALSE
  /\ heatmapLayerRef = NoLayer
  /\ mapLayers = {}
  /\ cleanupArmed = FALSE
  /\ layerSeq = 0
  /\ toggles = 0

\* nothing has been rendered yet
NotRendered ==
  /\ color = NoColor
  /\ category = NoCategory
  /\ heatOut = NoPoints

Init ==
  /\ InitApp
  /\ aqi = 0
  /\ heatIn = <<>>
  /\ NotRendered

\* a marker is about to be rendered for any AQI value
InitColor ==
  /\ InitApp
  /\ aqi \in AqiInputs
  /\ heatIn = <<>>
  /\ NotRendered

\* the heatmap transform is about to run on any station list
InitHeatPoints ==
  /\ InitApp
  /\ aqi = 0
  /\ heatIn \in StationLists
  /\ NotRendered

(* ------------------------------ helpers ------------------------------- *)
HasField(data, f) == f \in DOMAIN data

Last(s) == s[Len(s)]

\* hist with the outcome of task id recorded
Settle(id, st) == [hist EXCEPT ![id].st = st]

Done(id, kind, ok, via, data) ==
  [id |-> id, kind |-> kind, ok |-> ok, via |-> via, data |-> data]

\* toast.error / toast.success
Toast(msg) == toasts (+) SetToBag({msg})

\* parseFloat on the coordinate strings the geocoder sends
ParseFloat(str) ==
  CASE str = "22.9676" -> 229676
    [] str = "76.0534" -> 760534
    [] OTHER -> -1

(* --------------------- colour, category, intensity -------------------- *)
Min(a, b) == IF a < b THEN a ELSE b
Max(a, b) == IF a > b THEN a ELSE b

\* Math.round of the rational num / den, den > 0: halves go up
Round(num, den) == (2 * num + den) \div (2 * den)

\* the stops array of getAQIColor
Stops ==
  << [value |-> 0,    color |-> <<0, 176, 80>>],
     [value |-> 100,  color |-> <<0, 176, 80>>],
     [value |-> 250,  color |-> <<255, 255, 102>>],
     [value |-> 500,  color |-> <<255, 153, 0>>],
     [value |-> 750,  color |-> <<255, 51, 0>>],
     [value |-> 1000, color |-> <<153, 0, 0>> ] >>

\* mutant: the value is not clamped
Clamp_None(a) == a

\* Math.max(0, Math.min(1000, aqi))
Clamp(a) == Max(0, Min(1000, a))

\* the for loop: the first pair of adjacent stops that encloses c, both ends
\* inclusive; without a match the first and the last stop stay selected
FindStops(c) ==
  LET hits == {i \in 1..(Len(Stops) - 1) : c >= Stops[i].value /\ c <= Stops[i + 1].value}
  IN  IF hits = {}
        THEN [lower |-> Stops[1], upper |-> Stops[Len(Stops)]]
        ELSE LET i == CHOOSE j \in hits : \A k \in hits : j <= k
             IN  [lower |-> Stops[i], upper |-> Stops[i + 1]]

\* mutant: the channel runs from the upper stop to the lower one
Channel_Swapped(lo, up, c, k) ==
  LET range == up.value - lo.value
  IN  IF range = 0
        THEN up.color[k]
        ELSE Round(up.color[k] * range + (c - lo.value) * (lo.color[k] - up.color[k]), range)

\* Math.round(lower + ratio * (upper - lower)) with ratio = (c - lower.value) / range,
\* or 0 when the range is 0
Channel(lo, up, c, k) ==
  LET range == up.value - lo.value
  IN  IF range = 0
        THEN lo.color[k]
        ELSE Round(lo.color[k] * range + (c - lo.value) * (up.color[k] - lo.color[k]), range)

\* getAQIColor: the r, g, b of the rgb(...) string
GetAQIColor(a) ==
  LET c == Clamp(a)
      st == FindStops(c)
  IN  << Channel(st.lower, st.upper, c, 1),
         Channel(st.lower, st.upper, c, 2),
         Channel(st.lower, st.upper, c, 3) >>

\* mutant: the ladder tests with < instead of <=
GetAQICategory_Strict(a) ==
  IF a < 50 THEN [label |-> "Good", description |-> "Air quality is satisfactory"]
  ELSE IF a < 100 THEN [label |-> "Moderate", description |-> "Acceptable air quality"]
  ELSE IF a < 200 THEN [label |-> "Unhealthy for Sensitive Groups",
                        description |-> "Sensitive people should reduce outdoor activity"]
  ELSE IF a < 300 THEN [label |-> "Unhealthy",
                        description |-> "Everyone may begin to experience health effects"]
  ELSE IF a < 400 THEN [label |-> "Very Unhealthy",
                        description |-> "Health alert: everyone may experience serious effects"]
  ELSE IF a < 500 THEN [label |-> "Hazardous",
                        description |-> "Health warnings of emergency conditions"]
  ELSE [label |-> "Beyond Index", description |-> "Extremely hazardous conditions"]

\* getAQICategory
GetAQICategory(a) ==
  IF a <= 50 THEN [label |-> "Good", description |-> "Air quality is satisfactory"]
  ELSE IF a <= 100 THEN [label |-> "Moderate", description |-> "Acceptable air quality"]
  ELSE IF a <= 200 THEN [label |-> "Unhealthy for Sensitive Groups",
                         description |-> "Sensitive people should reduce outdoor activity"]
  ELSE IF a <= 300 THEN [label |-> "Unhealthy",
                         description |-> "Everyone may begin to experience health effects"]
  ELSE IF a <= 400 THEN [label |-> "Very Unhealthy",
                         description |-> "Health alert: everyone may experience serious effects"]
  ELSE IF a <= 500 THEN [label |-> "Hazardous",
                         description |-> "Health warnings of emergency conditions"]
  ELSE [label |-> "Beyond Index", description |-> "Extremely hazardous conditions"]

\* intensities are kept in thousandths
MILLI == 1000
\* the AQI at which the intensity saturates
HEAT_CEILING == 500

\* mutant: the intensity is normalised by the top of the colour scale
Intensity_FullScale(a) == Min((a * MILLI) \div 1000, MILLI)

\* Math.min(station.aqi / 500, 1), in thousandths
Intensity(a) == Min((a * MILLI) \div HEAT_CEILING, MILLI)

\* stations.map(station => [station.lat, station.lon, normalizedIntensity])
ToHeatPoints(sts) ==
  [i \in 1..Len(sts) |-> << sts[i].lat, sts[i].lon, Intensity(sts[i].aqi) >>]

(* ---------------------------- heat layer ------------------------------ *)
\* the cleanup a HeatmapLayer effect returned: remove the referenced layer
CleanedLayers == IF cleanupArmed THEN mapLayers \ {heatmapLayerRef} ELSE mapLayers

\* the HeatmapLayer effect for the station list sts, after the cleanup of its
\* previous run; ref is heatmapLayerRef.current at that moment
RunHeatEffect(ref, sts) ==
  IF Len(sts) = 0
    THEN /\ heatmapLayerRef' = ref
         /\ mapLayers' = CleanedLayers
         /\ cleanupArmed' = FALSE
         /\ layerSeq' = layerSeq
    ELSE LET heatLayer == [id |-> layerSeq + 1, points |-> ToHeatPoints(sts)]
         IN  /\ mapLayers' = (CleanedLayers \ {ref}) \cup {heatLayer}
             /\ heatmapLayerRef' = heatLayer
             /\ cleanupArmed' = TRUE
             /\ layerSeq' = layerSeq + 1

\* what setStations does to the heat layer: while HeatmapLayer is rendered,
\* its effect re-runs for the new array, equal in content or not
HeatmapEffect(data) ==
  IF showHeatmap /\ HasField(data, "stations")
    THEN RunHeatEffect(heatmapLayerRef, data.stations)
    ELSE UNCHANGED << heatmapLayerRef, mapLayers, cleanupArmed, layerSeq >>

\* mutant: turning the heatmap off leaves the layer on the map
ToggleHeatmap_Leak ==
  /\ mounted
  /\ toggles < MaxToggles
  /\ toggles' = toggles + 1
  /\ showHeatmap' = ~showHeatmap
  /\ IF showHeatmap
       THEN /\ mapLayers' = mapLayers
            /\ heatmapLayerRef' = NoLayer
            /\ cleanupArmed' = FALSE
            /\ layerSeq' = layerSeq
       ELSE RunHeatEffect(NoLayer, stations)
  /\ UNCHANGED << mounted, sent, toasts, unhandled, hist, renderVars, settles, afterSelect >>
  /\ UNCHANGED << mapVars, searchVars, selectVars >>

\* click on the heatmap button: setShowHeatmap(!showHeatmap); HeatmapLayer
\* is mounted with a fresh ref and runs its effect, or is unmounted and runs
\* the cleanup of its last effect
ToggleHeatmap ==
  /\ mounted
  /\ toggles < MaxToggles
  /\ toggles' = toggles + 1
  /\ showHeatmap' = ~showHeatmap
  /\ IF showHeatmap
       THEN /\ mapLayers' = CleanedLayers
            /\ heatmapLayerRef' = NoLayer
            /\ cleanupArmed' = FALSE
            /\ layerSeq' = layerSeq
       ELSE RunHeatEffect(NoLayer, stations)
  /\ UNCHANGED << mounted, sent, toasts, unhandled, hist, renderVars, settles, afterSelect >>
  /\ UNCHANGED << mapVars, searchVars, selectVars >>

(* --------------------------- marker render ---------------------------- *)
\* everything but the render outputs
appVars == << mounted, sent, toasts, unhandled, hist, settles, afterSelect,
              mapVars, searchVars, selectVars, heatVars >>

\* style={{ backgroundColor: getAQIColor(station.aqi) }}
ShowColor ==
  /\ color = NoColor
  /\ color' = GetAQIColor(aqi)
  /\ UNCHANGED << appVars, aqi, category, heatIn, heatOut >>

\* getAQICategory(station.aqi)
ShowCategory ==
  /\ category = NoCategory
  /\ category' = GetAQICategory(aqi)
  /\ UNCHANGED << appVars, aqi, color, heatIn, heatOut >>

\* the heatmapData of the HeatmapLayer effect
BuildHeatPoints ==
  /\ heatOut = NoPoints
  /\ heatOut' = [built |-> TRUE, points |-> ToHeatPoints(heatIn)]
  /\ UNCHANGED << appVars, aqi, color, category, heatIn >>

(* --------------------- viewport data controller ----------------------- *)
\* the params object of the bounds-query
BoundsParams(bounds) ==
  [nelat |-> bounds.ne.lat, nelng |-> bounds.ne.lng,
   swlat |-> bounds.sw.lat, swlng |-> bounds.sw.lng]

\* mutant: the response is merged into the current set instead of replacing it
ApplyStations_Merge(cur, data) ==
  IF HasField(data, "stations") THEN cur \o data.stations ELSE cur

\* if (response.data.stations) setStations(response.data.stations)
ApplyStations(cur, data) ==
  IF HasField(data, "stations") THEN data.stations ELSE cur

\* mutant: a new request aborts the requests still in flight
FetchStations_Abort(bounds) ==
  /\ CanIssue("bounds", MaxFetches)
  /\ loading' = TRUE
  /\ fetches' = {[id |-> NextId, params |-> BoundsParams(bounds)]}
  /\ sent' = Append(sent, [svc |-> "bounds", params |-> BoundsParams(bounds), task |-> NextId])
  /\ hist' = Append(hist, [kind |-> "bounds", arg |-> bounds, st |-> "pending", via |-> "none"])

\* fetchStations up to its await: setLoading(true), then the request; the
\* requests already in flight are left alone
FetchStations(bounds) ==
  /\ CanIssue("bounds", MaxFetches)
  /\ loading' = TRUE
  /\ fetches' = fetches \cup {[id |-> NextId, params |-> BoundsParams(bounds)]}
  /\ sent' = Append(sent, [svc |-> "bounds", params |-> BoundsParams(bounds), task |-> NextId])
  /\ hist' = Append(hist, [kind |-> "bounds", arg |-> bounds, st |-> "pending", via |-> "none"])

\* mutant: no initial-load effect, the first settle event is left to the user
Mount_NoLoad ==
  /\ ~mounted
  /\ mounted' = TRUE
  /\ timers' = {[q |-> query, rem |-> DEBOUNCE_MS]}
  /\ UNCHANGED << view, stations, loading, fetches, sent, hist, lastFetch, lastOkFetch,
                  prevStations, toasts, unhandled,
                  query, results, isSearching, showResults, searches, lastSearch,
                  resultsBy, calls, lastCall, keys, lastEdit, sinceEdit >>
  /\ UNCHANGED selectVars
  /\ UNCHANGED << heatVars, renderVars, settles, afterSelect >>

\* the mount effects: the debounce effect of SearchBar arms its first timer,
\* the initial-load effect of MapEventHandler fires one settle event
Mount ==
  /\ ~mounted
  /\ mounted' = TRUE
  /\ timers' = {[q |-> query, rem |-> DEBOUNCE_MS]}
  /\ FetchStations(view)
  /\ UNCHANGED << view, stations, lastFetch, lastOkFetch, prevStations, toasts, unhandled,
                  query, results, isSearching, showResults, searches, lastSearch,
                  resultsBy, calls, lastCall, keys, lastEdit, sinceEdit >>
  /\ UNCHANGED selectVars
  /\ settles' = Append(settles, [ev |-> "mount", bounds |-> view])
  /\ UNCHANGED << heatVars, renderVars, afterSelect >>

MoveEnd(b) ==
  /\ mounted
  /\ view' = b
  /\ FetchStations(b)
  /\ UNCHANGED << mounted, stations, lastFetch, lastOkFetch, prevStations, toasts, unhandled >>
  /\ UNCHANGED << searchVars, selectVars >>
  /\ settles' = Append(settles, [ev |-> "moveend", bounds |-> b])
  /\ UNCHANGED << heatVars, renderVars, afterSelect >>

ZoomEnd(b) ==
  /\ mounted
  /\ view' = b
  /\ FetchStations(b)
  /\ UNCHANGED << mounted, stations, lastFetch, lastOkFetch, prevStations, toasts, unhandled >>
  /\ UNCHANGED << searchVars, selectVars >>
  /\ settles' = Append(settles, [ev |-> "zoomend", bounds |-> b])
  /\ UNCHANGED << heatVars, renderVars, afterSelect >>

\* the bounds-query resolves: the try block after the await, then finally
FetchOk(r, data) ==
  /\ r \in fetches
  /\ stations' = ApplyStations(stations, data)
  /\ loading' = FALSE
  /\ fetches' = fetches \ {r}
  /\ hist' = Settle(r.id, "ok")
  /\ lastFetch' = Done(r.id, "bounds", TRUE, "none", data)
  /\ lastOkFetch' = IF HasField(data, "stations") THEN lastFetch' ELSE lastOkFetch
  /\ prevStations' = stations
  /\ UNCHANGED << mounted, view, sent, toasts, unhandled >>
  /\ UNCHANGED << searchVars, selectVars >>
  /\ HeatmapEffect(data)
  /\ UNCHANGED << showHeatmap, toggles, renderVars, settles, afterSelect >>

\* mutant: the catch block sends the bounds-query again
FetchFail_Retry(r) ==
  /\ r \in fetches
  /\ toasts' = Toast(MSG_FETCH_FAILED)
  /\ loading' = FALSE
  /\ IF CanIssue("bounds", MaxFetches)
       THEN /\ fetches' = (fetches \ {r}) \cup {[id |-> NextId, params |-> r.params]}
            /\ sent' = Append(sent, [svc |-> "bounds", params |-> r.params, task |-> NextId])
            /\ hist' = Append(Settle(r.id, "fail"),
                              [kind |-> "bounds", arg |-> hist[r.id].arg, st |-> "pending",
                               via |-> "none"])
       ELSE /\ fetches' = fetches \ {r}
            /\ sent' = sent
            /\ hist' = Settle(r.id, "fail")
  /\ lastFetch' = Done(r.id, "bounds", FALSE, "none", NoData)
  /\ prevStations' = stations
  /\ UNCHANGED << mounted, view, stations, unhandled, lastOkFetch >>
  /\ UNCHANGED << searchVars, selectVars >>
  /\ UNCHANGED << heatVars, renderVars, settles, afterSelect >>

\* mutant: the catch block blanks the display
FetchFail_Blank(r) ==
  /\ r \in fetches
  /\ stations' = <<>>
  /\ toasts' = Toast(MSG_FETCH_FAILED)
  /\ loading' = FALSE
  /\ fetches' = fetches \ {r}
  /\ hist' = Settle(r.id, "fail")
  /\ lastFetch' = Done(r.id, "bounds", FALSE, "none", NoData)
  /\ prevStations' = stations
  /\ UNCHANGED << mounted, view, sent, unhandled, lastOkFetch >>
  /\ UNCHANGED << searchVars, selectVars >>
  /\ UNCHANGED << heatVars, renderVars, settles, afterSelect >>

\* the bounds-query rejects: catch, then finally
FetchFail(r) ==
  /\ r \in fetches
  /\ toasts' = Toast(MSG_FETCH_FAILED)
  /\ loading' = FALSE
  /\ fetches' = fetches \ {r}
  /\ hist' = Settle(r.id, "fail")
  /\ lastFetch' = Done(r.id, "bounds", FALSE, "none", NoData)
  /\ prevStations' = stations
  /\ UNCHANGED << mounted, view, stations, sent, unhandled, lastOkFetch >>
  /\ UNCHANGED << searchVars, selectVars >>
  /\ UNCHANGED << heatVars, renderVars, settles, afterSelect >>

(* -------------------------- search resolver --------------------------- *)
\* time steps by which the clock advances between events
TimeSteps == {250}

\* the cleanup of the debounce effect: clearTimeout on the timer armed by the
\* effect's previous run, the one that captured the query now replaced
ClearTimeout(ts, q) == {t \in ts : t.q # q}

\* the debounce effect re-runs because query changed from old to new
Reschedule(old, new) == ClearTimeout(timers, old) \cup {[q |-> new, rem |-> DEBOUNCE_MS]}

\* mutant: the matches are listed in reverse order
MapWaqi_Reversed(rs) ==
  [i \in 1..Len(rs) |-> [name |-> rs[Len(rs) + 1 - i].name, lat |-> rs[Len(rs) + 1 - i].lat,
                         lon |-> rs[Len(rs) + 1 - i].lon, aqi |-> rs[Len(rs) + 1 - i].aqi,
                         source |-> "waqi"]]

\* results.map of the primary branch
MapWaqi(rs) ==
  [i \in 1..Len(rs) |-> [name |-> rs[i].name, lat |-> rs[i].lat, lon |-> rs[i].lon,
                         aqi |-> rs[i].aqi, source |-> "waqi"]]

\* data.map of the fallback branch
MapNominatim(ps) ==
  [i \in 1..Len(ps) |-> [name |-> ps[i].display_name, lat |-> ParseFloat(ps[i].lat),
                         lon |-> ParseFloat(ps[i].lon), source |-> "nominatim"]]

\* waqiResponse.data.results && waqiResponse.data.results.length > 0
HasMatches(data) == HasField(data, "results") /\ Len(data.results) > 0

PrimaryRequest(q, id) ==
  [svc |-> "search", params |-> [query |-> q], task |-> id]

\* mutant: the geocoder is asked without the country scope
FallbackRequest_Unscoped(q, id) ==
  [svc |-> "nominatim",
   params |-> [q |-> q, format |-> "json", limit |-> NOMINATIM_LIMIT, countrycodes |-> ""],
   headers |-> USER_AGENT, task |-> id]

FallbackRequest(q, id) ==
  [svc |-> "nominatim",
   params |-> [q |-> q \o COUNTRY_SUFFIX, format |-> "json", limit |-> NOMINATIM_LIMIT,
               countrycodes |-> COUNTRY_CODES],
   headers |-> USER_AGENT, task |-> id]

\* time passes; a timer that is due runs before the clock moves on
Advance(d) ==
  /\ timers # {}
  /\ \A t \in timers : t.rem >= d
  /\ timers' = {[t EXCEPT !.rem = @ - d] : t \in timers}
  /\ sinceEdit' = sinceEdit + d
  /\ UNCHANGED << mounted, sent, toasts, unhandled, hist, query, results, isSearching,
                  showResults, searches, lastSearch, resultsBy, calls, lastCall, keys,
                  lastEdit >>
  /\ UNCHANGED << mapVars, selectVars >>
  /\ UNCHANGED << heatVars, renderVars, settles, afterSelect >>

\* onChange of the input: setQuery, then the debounce effect re-runs
KeyStroke(text) ==
  /\ mounted
  /\ CanInput
  /\ text # query
  /\ query' = text
  /\ timers' = Reschedule(query, text)
  /\ keys' = keys + 1
  /\ lastEdit' = "key"
  /\ sinceEdit' = 0
  /\ UNCHANGED << mounted, sent, toasts, unhandled, hist, results, isSearching,
                  showResults, searches, lastSearch, resultsBy, calls, lastCall >>
  /\ UNCHANGED << mapVars, selectVars >>
  /\ afterSelect' = FALSE
  /\ UNCHANGED << heatVars, renderVars, settles >>

\* the debounce callback: if (query) searchLocation(query), up to its first await
TimerFire(t) ==
  /\ t \in timers
  /\ t.rem = 0
  /\ timers' = timers \ {t}
  /\ IF t.q = ""
       THEN UNCHANGED << results, resultsBy, isSearching, searches, sent, hist, calls,
                         lastCall >>
       ELSE /\ calls' = calls + 1
            /\ lastCall' = t.q
            /\ IF Len(t.q) < MIN_QUERY_LEN
                 THEN /\ results' = <<>>
                      /\ resultsBy' = 0
                      /\ UNCHANGED << isSearching, searches, sent, hist >>
                 ELSE /\ CanIssue("search", MaxSearches)
                      /\ isSearching' = TRUE
                      /\ searches' = searches \cup {[id |-> NextId, q |-> t.q, stage |-> "primary"]}
                      /\ sent' = Append(sent, PrimaryRequest(t.q, NextId))
                      /\ hist' = Append(hist, [kind |-> "search", arg |-> t.q,
                                               st |-> "pending", via |-> "primary"])
                      /\ UNCHANGED << results, resultsBy >>
  /\ UNCHANGED << mounted, toasts, unhandled, query, showResults, lastSearch, keys,
                  lastEdit, sinceEdit >>
  /\ UNCHANGED << mapVars, selectVars >>
  /\ UNCHANGED << heatVars, renderVars, settles, afterSelect >>

\* the primary search resolves: matches are shown, or the fallback is requested
PrimaryOk(s, data) ==
  /\ s \in searches
  /\ s.stage = "primary"
  /\ IF HasMatches(data)
       THEN /\ results' = MapWaqi(data.results)
            /\ showResults' = TRUE
            /\ isSearching' = FALSE
            /\ resultsBy' = s.id
            /\ searches' = searches \ {s}
            /\ hist' = Settle(s.id, "ok")
            /\ lastSearch' = Done(s.id, "search", TRUE, "primary", data)
            /\ UNCHANGED sent
       ELSE /\ searches' = (searches \ {s}) \cup {[s EXCEPT !.stage = "fallback"]}
            /\ sent' = Append(sent, FallbackRequest(s.q, s.id))
            /\ hist' = [hist EXCEPT ![s.id].via = "fallback"]
            /\ UNCHANGED << results, showResults, isSearching, resultsBy, lastSearch >>
  /\ UNCHANGED << mounted, toasts, unhandled, query, timers, calls, lastCall, keys,
                  lastEdit, sinceEdit >>
  /\ UNCHANGED << mapVars, selectVars >>
  /\ UNCHANGED << heatVars, renderVars, settles, afterSelect >>

\* the fallback geocoder resolves
FallbackOk(s, data) ==
  /\ s \in searches
  /\ s.stage = "fallback"
  /\ results' = MapNominatim(data.places)
  /\ showResults' = TRUE
  /\ isSearching' = FALSE
  /\ resultsBy' = s.id
  /\ searches' = searches \ {s}
  /\ hist' = Settle(s.id, "ok")
  /\ lastSearch' = Done(s.id, "search", TRUE, "fallback", data)
  /\ UNCHANGED << mounted, sent, toasts, unhandled, query, timers, calls, lastCall, keys,
                  lastEdit, sinceEdit >>
  /\ UNCHANGED << mapVars, selectVars >>
  /\ UNCHANGED << heatVars, renderVars, settles, afterSelect >>

\* mutant: a failed primary search still asks the fallback geocoder
SearchFail_Geocodes(s) ==
  /\ s \in searches
  /\ toasts' = Toast(MSG_SEARCH_FAILED)
  /\ isSearching' = FALSE
  /\ searches' = searches \ {s}
  /\ hist' = Settle(s.id, "fail")
  /\ lastSearch' = Done(s.id, "search", FALSE, s.stage, NoData)
  /\ sent' = IF s.stage = "primary" THEN Append(sent, FallbackRequest(s.q, s.id)) ELSE sent
  /\ UNCHANGED << mounted, unhandled, query, results, showResults, timers,
                  resultsBy, calls, lastCall, keys, lastEdit, sinceEdit >>
  /\ UNCHANGED << mapVars, selectVars >>
  /\ UNCHANGED << heatVars, renderVars, settles, afterSelect >>

\* mutant: the catch block empties the result set
SearchFail_Clear(s) ==
  /\ s \in searches
  /\ results' = <<>>
  /\ resultsBy' = 0
  /\ toasts' = Toast(MSG_SEARCH_FAILED)
  /\ isSearching' = FALSE
  /\ searches' = searches \ {s}
  /\ hist' = Settle(s.id, "fail")
  /\ lastSearch' = Done(s.id, "search", FALSE, s.stage, NoData)
  /\ UNCHANGED << mounted, sent, unhandled, query, showResults, timers,
                  calls, lastCall, keys, lastEdit, sinceEdit >>
  /\ UNCHANGED << mapVars, selectVars >>
  /\ UNCHANGED << heatVars, renderVars, settles, afterSelect >>

\* either search request rejects: catch, then finally
SearchFail(s) ==
  /\ s \in searches
  /\ toasts' = Toast(MSG_SEARCH_FAILED)
  /\ isSearching' = FALSE
  /\ searches' = searches \ {s}
  /\ hist' = Settle(s.id, "fail")
  /\ lastSearch' = Done(s.id, "search", FALSE, s.stage, NoData)
  /\ UNCHANGED << mounted, sent, unhandled, query, results, showResults, timers,
                  resultsBy, calls, lastCall, keys, lastEdit, sinceEdit >>
  /\ UNCHANGED << mapVars, selectVars >>
  /\ UNCHANGED << heatVars, renderVars, settles, afterSelect >>

\* onFocus of the input
Focus ==
  /\ mounted
  /\ showResults' = IF Len(results) > 0 THEN TRUE ELSE showResults
  /\ UNCHANGED << mounted, sent, toasts, unhandled, hist, query, results, isSearching,
                  timers, searches, lastSearch, resultsBy, calls, lastCall, keys,
                  lastEdit, sinceEdit >>
  /\ UNCHANGED << mapVars, selectVars >>
  /\ afterSelect' = FALSE
  /\ UNCHANGED << heatVars, renderVars, settles >>

\* mousedown outside the search container
ClickOutside ==
  /\ mounted
  /\ showResults' = FALSE
  /\ UNCHANGED << mounted, sent, toasts, unhandled, hist, query, results, isSearching,
                  timers, searches, lastSearch, resultsBy, calls, lastCall, keys,
                  lastEdit, sinceEdit >>
  /\ UNCHANGED << mapVars, selectVars >>
  /\ UNCHANGED << heatVars, renderVars, settles, afterSelect >>

(* ------------------------- location selection ------------------------- *)
\* click on result i of the rendered list: handleSelectLocation up to its
\* await, then setShowResults(false) and setQuery('')
SelectResult(i) ==
  /\ mounted
  /\ showResults
  /\ i \in 1..Len(results)
  /\ CanInput
  /\ mapCenter' = <<results[i].lat, results[i].lon>>
  /\ mapZoom' = SELECT_ZOOM
  /\ lookups' = lookups \cup {[id |-> NextId, name |-> results[i].name]}
  /\ sent' = Append(sent, [svc |-> "geo",
                           params |-> [lat |-> results[i].lat, lng |-> results[i].lon],
                           task |-> NextId])
  /\ hist' = Append(hist, [kind |-> "geo", arg |-> results[i].name, st |-> "pending",
                           via |-> "none"])
  /\ showResults' = FALSE
  /\ query' = ""
  /\ IF query # ""
       THEN /\ timers' = Reschedule(query, "")
            /\ lastEdit' = "select"
            /\ sinceEdit' = 0
       ELSE UNCHANGED << timers, lastEdit, sinceEdit >>
  /\ UNCHANGED << mounted, toasts, unhandled, selectedStation, lastGeo, results,
                  isSearching, searches, lastSearch, resultsBy, calls, lastCall, keys >>
  /\ UNCHANGED mapVars
  /\ afterSelect' = TRUE
  /\ UNCHANGED << heatVars, renderVars, settles >>

\* the point query resolves
GeoOk(l, data) ==
  /\ l \in lookups
  /\ IF data # NoData
       THEN /\ selectedStation' = data
            /\ toasts' = Toast(MSG_SHOWING \o l.name)
       ELSE UNCHANGED << selectedStation, toasts >>
  /\ lookups' = lookups \ {l}
  /\ hist' = Settle(l.id, "ok")
  /\ lastGeo' = Done(l.id, "geo", TRUE, "none", data)
  /\ UNCHANGED << mounted, sent, unhandled, mapCenter, mapZoom >>
  /\ UNCHANGED << mapVars, searchVars >>
  /\ UNCHANGED << heatVars, renderVars, settles, afterSelect >>

\* mutant: no catch block, the rejection escapes handleSelectLocation
GeoFail_Uncaught(l) ==
  /\ l \in lookups
  /\ unhandled' = unhandled + 1
  /\ lookups' = lookups \ {l}
  /\ hist' = Settle(l.id, "fail")
  /\ lastGeo' = Done(l.id, "geo", FALSE, "none", NoData)
  /\ UNCHANGED << mounted, sent, toasts, selectedStation, mapCenter, mapZoom >>
  /\ UNCHANGED << mapVars, searchVars >>
  /\ UNCHANGED << heatVars, renderVars, settles, afterSelect >>

\* the point query rejects: catch
GeoFail(l) ==
  /\ l \in lookups
  /\ toasts' = Toast(MSG_NO_DATA)
  /\ lookups' = lookups \ {l}
  /\ hist' = Settle(l.id, "fail")
  /\ lastGeo' = Done(l.id, "geo", FALSE, "none", NoData)
  /\ UNCHANGED << mounted, sent, unhandled, selectedStation, mapCenter, mapZoom >>
  /\ UNCHANGED << mapVars, searchVars >>
  /\ UNCHANGED << heatVars, renderVars, settles, afterSelect >>

(* --------------------------- specifications --------------------------- *)
\* the viewport data controller: settle events and bounds-queries
NextMap ==
  \/ Mount
  \/ \E b \in Boxes : MoveEnd(b)
  \/ \E b \in Boxes : ZoomEnd(b)
  \/ \E r \in fetches, data \in BoundsData : FetchOk(r, data)
  \/ \E r \in fetches : FetchFail(r)

\* the search resolver: typing, the debounce timer and the two search calls
NextSearch ==
  \/ Mount
  \/ \E d \in TimeSteps : Advance(d)
  \/ \E text \in Texts : KeyStroke(text)
  \/ \E t \in timers : TimerFire(t)
  \/ \E s \in searches, data \in SearchData : PrimaryOk(s, data)
  \/ \E s \in searches, data \in GeocodeData : FallbackOk(s, data)
  \/ \E s \in searches : SearchFail(s)

\* the search resolver with the selection of a result, over the mount load
NextSelect ==
  \/ NextSearch
  \/ \E r \in fetches, data \in BoundsData : FetchOk(r, data)
  \/ \E r \in fetches : FetchFail(r)
  \/ \E i \in 1..Len(results) : SelectResult(i)
  \/ \E l \in lookups, data \in GeoData : GeoOk(l, data)
  \/ \E l \in lookups : GeoFail(l)

\* the search bar as the user sees it: the result list opened, closed and clicked
NextList ==
  \/ NextSearch
  \/ Focus
  \/ ClickOutside
  \/ \E i \in 1..Len(results) : SelectResult(i)
  \/ \E l \in lookups, data \in GeoData : GeoOk(l, data)
  \/ \E l \in lookups : GeoFail(l)

\* the viewport data controller with the heatmap button
NextHeat ==
  \/ NextMap
  \/ ToggleHeatmap

\* rendering one AQI value
NextColor ==
  \/ ShowColor
  \/ ShowCategory

\* transforming one station list
NextHeatPoints == BuildHeatPoints

Next == NextMap \/ NextSelect \/ NextList \/ NextHeat \/ NextColor \/ NextHeatPoints

Spec == Init /\ [][Next]_vars
SpecMap == Init /\ [][NextMap]_vars
SpecSearch == Init /\ [][NextSearch]_vars
SpecSelect == Init /\ [][NextSelect]_vars
SpecList == Init /\ [][NextList]_vars
SpecHeat == Init /\ [][NextHeat]_vars
SpecColor == InitColor /\ [][NextColor]_vars
SpecHeatPoints == InitHeatPoints /\ [][NextHeatPoints]_vars
\* React runs the mount effects of a rendered tree
SpecMapFair == SpecMap /\ WF_vars(Mount)

(* ------------------------- claims: vocabulary ------------------------- *)
\* ids of the tasks of a kind, in issue order
TaskIds(kind) == {i \in 1..Len(hist) : hist[i].kind = kind}

\* requests sent to a service on behalf of task id
SentFor(svc, id) == {k \in 1..Len(sent) : sent[k].svc = svc /\ sent[k].task = id}

\* this step completes a request of the kind whose last completion is last
Completes(last) == last'.id # last.id

\* this step is a firing of a debounce timer
Fires == Cardinality(timers') < Cardinality(timers) /\ query' = query

\* exactly one notification, msg, is raised in this step
Raises(msg) == toasts' = toasts (+) SetToBag({msg})

(* ------------------------------ C1 ------------------------------------ *)
\* C1: after a bounds-query that completed successfully with a station list,
\* the station set is exactly that list: nothing of the previous set remains
\* unless the response holds it, and an empty list leaves the set empty.
C1_StationsReplaced ==
  (lastFetch.ok /\ HasField(lastFetch.data, "stations"))
    => stations = lastFetch.data.stations

\* a response with zero stations for the moved viewport replaced a loaded set
C1_Witness ==
  /\ lastFetch.ok
  /\ hist[lastFetch.id].arg = MovedBox
  /\ lastFetch.data = [stations |-> <<>>]
  /\ prevStations = <<St2, St1>>
  /\ stations = <<>>

(* ------------------------------ C2 ------------------------------------ *)
\* C2: a failing bounds-query leaves the station set as it was, raises exactly
\* one failure notification, lets no exception escape, and leaves loading false.
C2_FailureKeepsStations ==
  [][ (Completes(lastFetch) /\ ~lastFetch'.ok)
        => /\ stations' = stations
           /\ Raises(MSG_FETCH_FAILED)
           /\ unhandled' = unhandled
           /\ loading' = FALSE ]_vars

\* a bounds-query failed after an earlier one had loaded stations
C2_Witness ==
  /\ lastFetch.id # 0
  /\ ~lastFetch.ok
  /\ lastOkFetch.id # 0
  /\ stations = <<St2, St1>>
  /\ prevStations = stations
  /\ toasts = SetToBag({MSG_FETCH_FAILED})
  /\ ~loading

(* ------------------------------ C3 ------------------------------------ *)
\* C3: a settle event cancels no request in flight (every request issued and
\* not completed is still awaited), and once all requests have completed the
\* station set is the response of the request that completed successfully
\* last, whatever the order of issue.
C3_LastCompletionWins ==
  /\ \A i \in TaskIds("bounds") :
       hist[i].st = "pending" => \E r \in fetches : r.id = i
  /\ (fetches = {} /\ lastOkFetch.id # 0) => stations = lastOkFetch.data.stations

\* the request for the older viewport completed after the newer one and won
C3_Witness ==
  /\ fetches = {}
  /\ Len(hist) >= 2
  /\ hist[1].arg = InitialBox /\ hist[2].arg = MovedBox
  /\ hist[2].st = "ok"
  /\ lastFetch.id = 1 /\ lastOkFetch.id = 1
  /\ prevStations = <<>>
  /\ stations = <<St2, St1>>

(* ------------------------------ C4 ------------------------------------ *)
\* C4: the timer that fires after a burst of keystrokes calls the resolver
\* exactly once, 500ms after the last keystroke, with the final text, and no
\* other timer is left pending.
C4_OneCallPerBurst ==
  [][ (Fires /\ lastEdit = "key")
        => /\ calls' = calls + 1
           /\ lastCall' = query
           /\ sinceEdit = DEBOUNCE_MS
           /\ timers' = {} ]_vars

(* ------------------------------ C5 ------------------------------------ *)
\* C5: resolving a typed query of length 0 or 1 leaves the result set empty,
\* also when it held matches before, and sends no request.
C5_ShortQueryClears ==
  [][ (Fires /\ lastEdit = "key" /\ Len(query) < MIN_QUERY_LEN)
        => /\ results' = <<>>
           /\ sent' = sent ]_vars

(* ------------------------------ C6 ------------------------------------ *)
\* the primary search of task i returns without matches in this step
PrimaryEmpty(i) == hist[i].via = "primary" /\ hist'[i].via = "fallback"

\* C6: a query of length >= 2 whose primary search returns no match issues,
\* at that response, exactly one fallback request, scoped to the country and
\* limited to 5 candidates; when the fallback returns, the result set is its
\* candidates in order, each tagged as from the fallback source.
C6_FallbackOnEmpty ==
  /\ [](\A i \in TaskIds("search") :
          /\ Len(hist[i].arg) >= MIN_QUERY_LEN
          /\ hist[i].via = "fallback"
               => /\ Cardinality(SentFor("nominatim", i)) = 1
                  /\ \A k \in SentFor("nominatim", i), j \in SentFor("search", i) : j < k)
  /\ [][ \A i \in TaskIds("search") :
           PrimaryEmpty(i)
             => /\ Len(sent') = Len(sent) + 1
                /\ Last(sent').svc = "nominatim"
                /\ Last(sent').task = i
                /\ Last(sent').params.q = hist[i].arg \o ", India"
                /\ Last(sent').params.countrycodes = "in"
                /\ Last(sent').params.limit = 5 ]_vars
  /\ [][ (Completes(lastSearch) /\ lastSearch'.ok /\ lastSearch'.via = "fallback")
           => /\ Len(results') = Len(lastSearch'.data.places)
              /\ \A k \in 1..Len(results') :
                   /\ results'[k].name = lastSearch'.data.places[k].display_name
                   /\ results'[k].source = "nominatim" ]_vars

\* the fallback answered an empty primary search and its candidate is listed
C6_Witness ==
  /\ lastSearch.ok
  /\ lastSearch.via = "fallback"
  /\ Cardinality(SentFor("nominatim", lastSearch.id)) = 1
  /\ Len(results) = 1
  /\ results[1].name = Place1.display_name
  /\ results[1].source = "nominatim"

(* ------------------------------ C7 ------------------------------------ *)
\* C7: when the primary search returns matches, the result set becomes those
\* matches in the service's order, each tagged as from the primary source,
\* and no fallback request is ever sent for that query.
C7_PrimaryMatchesShown ==
  /\ [](\A i \in TaskIds("search") :
          (hist[i].st = "ok" /\ hist[i].via = "primary") => SentFor("nominatim", i) = {})
  /\ [][ (Completes(lastSearch) /\ lastSearch'.ok /\ lastSearch'.via = "primary")
           => /\ sent' = sent
              /\ Len(results') = Len(lastSearch'.data.results)
              /\ Len(results') > 0
              /\ \A k \in 1..Len(results') :
                   /\ results'[k].name = lastSearch'.data.results[k].name
                   /\ results'[k].lat = lastSearch'.data.results[k].lat
                   /\ results'[k].lon = lastSearch'.data.results[k].lon
                   /\ results'[k].aqi = lastSearch'.data.results[k].aqi
                   /\ results'[k].source = "waqi" ]_vars

\* two matches are listed in the service's order
C7_Witness ==
  /\ lastSearch.ok
  /\ lastSearch.via = "primary"
  /\ Len(results) = 2
  /\ results[1].name = Hit2.name /\ results[2].name = Hit1.name
  /\ SentFor("nominatim", lastSearch.id) = {}

(* ------------------------------ C8 ------------------------------------ *)
\* C8 as stated: a search that ends in a transport failure raises one
\* notification, leaves the result set empty, and lets no exception escape.
C8_FailureEmptiesResults ==
  [][ (Completes(lastSearch) /\ ~lastSearch'.ok)
        => /\ Raises(MSG_SEARCH_FAILED)
           /\ results' = <<>>
           /\ unhandled' = unhandled ]_vars

\* C8 as amended: a search call that fails (the primary, or the fallback after
\* an empty primary response) raises one notification, leaves the result set
\* as it was before the failure, and lets no exception escape.
C8_FailureKeepsResults ==
  [][ (Completes(lastSearch) /\ ~lastSearch'.ok)
        => /\ Raises(MSG_SEARCH_FAILED)
           /\ results' = results
           /\ unhandled' = unhandled ]_vars

\* a search failed while the matches of an earlier search were listed
C8_Witness ==
  /\ lastSearch.id # 0
  /\ ~lastSearch.ok
  /\ resultsBy # 0 /\ resultsBy # lastSearch.id
  /\ results # <<>>
  /\ toasts = SetToBag({MSG_SEARCH_FAILED})

(* ------------------------------ C9 ------------------------------------ *)
\* the search task issued last
LatestSearch == CHOOSE i \in TaskIds("search") : \A j \in TaskIds("search") : j <= i

\* C9: once every search request has completed, a result set written by a
\* search is the one of the most recently issued query, when that query
\* produced one.
C9_LatestQueryWins ==
  (/\ searches = {}
   /\ TaskIds("search") # {}
   /\ resultsBy # 0)
    => (hist[LatestSearch].st = "ok" => resultsBy = LatestSearch)

(* ------------------------------ C10 ----------------------------------- *)
\* this step issues the first request of a search or of a point lookup
IssuesCall == Len(hist') > Len(hist) /\ Last(hist').kind \in {"search", "geo"}

\* C10: a transport failure of a search call or of the point lookup is caught
\* (nothing escapes), raises exactly one notification, and neither the call
\* nor its failure changes the station set, the result set or the selected
\* station.
C10_FailureFrame ==
  /\ [][ ((Completes(lastSearch) /\ ~lastSearch'.ok) \/ (Completes(lastGeo) /\ ~lastGeo'.ok))
           => /\ BagCardinality(toasts') = BagCardinality(toasts) + 1
              /\ Raises(IF Completes(lastGeo) THEN MSG_NO_DATA ELSE MSG_SEARCH_FAILED)
              /\ unhandled' = unhandled
              /\ stations' = stations
              /\ results' = results
              /\ selectedStation' = selectedStation ]_vars
  /\ [][ (IssuesCall \/ \E i \in TaskIds("search") : PrimaryEmpty(i))
           => /\ stations' = stations
              /\ results' = results
              /\ selectedStation' = selectedStation
              /\ toasts' = toasts ]_vars

\* the point lookup failed over loaded stations and a listed result set
C10_Witness ==
  /\ lastGeo.id # 0
  /\ ~lastGeo.ok
  /\ stations = <<St2, St1>>
  /\ results # <<>>
  /\ toasts = SetToBag({MSG_NO_DATA})
  /\ unhandled = 0

(* ------------------------------ C11 ----------------------------------- *)
\* the four floats of a bounds box, as the bounds-query carries them
FourBounds(b) ==
  [nelat |-> b.ne.lat, nelng |-> b.ne.lng, swlat |-> b.sw.lat, swlng |-> b.sw.lng]

\* the bounds-queries sent so far, in order
BoundsSent == SelectSeq(sent, LAMBDA r : r.svc = "bounds")

\* C11: mounting fires exactly one settle event, against the initial bounds,
\* so without any user interaction a bounds-query for the initial bounds is
\* eventually issued, it is the only one, and when it succeeds with a station
\* list the station set is that list.
C11_InitialLoad ==
  /\ <>(BoundsSent # <<>> /\ BoundsSent[1].params = FourBounds(InitialBox))
  /\ [](mounted =>
          /\ settles # <<>>
          /\ settles[1] = [ev |-> "mount", bounds |-> InitialBox]
          /\ \A k \in 2..Len(settles) : settles[k].ev # "mount")
  /\ [](~mounted => (settles = <<>> /\ sent = <<>>))
  /\ [](Len(settles) = 1 =>
          /\ Len(BoundsSent) = 1
          /\ (lastFetch.ok /\ HasField(lastFetch.data, "stations"))
               => stations = lastFetch.data.stations)

\* the mount load alone filled the station set
C11_Witness ==
  /\ settles = << [ev |-> "mount", bounds |-> InitialBox] >>
  /\ Len(sent) = 1
  /\ lastFetch.id = 1 /\ lastFetch.ok
  /\ stations = <<St2, St1>>

(* ------------------------------ C12 ----------------------------------- *)
\* C12: every settle event (mount, moveend, zoomend) issues exactly one
\* bounds-query, carrying the four bounds read at that event; requests are
\* issued by nothing else, in particular not by the completion or the failure
\* of a bounds-query; so the bounds-queries issued are as many as the settle
\* events.
C12_OneQueryPerSettle ==
  /\ [](/\ Len(BoundsSent) = Len(settles)
        /\ \A k \in 1..Len(settles) : BoundsSent[k].params = FourBounds(settles[k].bounds))
  /\ [][ Len(settles') = Len(settles) + 1
           => /\ Len(sent') = Len(sent) + 1
              /\ Last(sent').svc = "bounds"
              /\ Last(sent').params = FourBounds(view')
              /\ Last(settles').ev \in {"mount", "moveend", "zoomend"} ]_vars
  /\ [][ sent' # sent => Len(settles') = Len(settles) + 1 ]_vars
  /\ [][ Completes(lastFetch) => (sent' = sent /\ settles' = settles /\ fetches' \subseteq fetches) ]_vars

\* three settle events of the three kinds, three queries, one of them failed
C12_Witness ==
  /\ Len(settles) = 3
  /\ {settles[k].ev : k \in 1..3} = {"mount", "moveend", "zoomend"}
  /\ settles[2].bounds # settles[3].bounds
  /\ Len(sent) = 3
  /\ \E i \in TaskIds("bounds") : hist[i].st = "fail"
  /\ fetches = {}

\* C12, the debounce timer: a firing of the debounce timer issues at most one
\* request, a primary search, and none for a query shorter than 2 characters.
C12_TimerIssuesAtMostOne ==
  [][ Fires
        => /\ Len(sent') <= Len(sent) + 1
           /\ Len(sent') = Len(sent) + 1
                => (Last(sent').svc = "search" /\ Len(query) >= 2) ]_vars

(* ------------------------------ C13 ----------------------------------- *)
\* C13: getAQICategory answers for every integer, with the first rung of the
\* ascending ladder that holds: Good up to 50 (negatives included), Moderate
\* 51..100, Unhealthy for Sensitive Groups 101..200, Unhealthy 201..300,
\* Very Unhealthy 301..400, Hazardous 401..500, Beyond Index above 500.
C13_CategoryLadder ==
  category # NoCategory =>
    /\ aqi <= 50 => category.label = "Good"
    /\ aqi \in 51..100 => category.label = "Moderate"
    /\ aqi \in 101..200 => category.label = "Unhealthy for Sensitive Groups"
    /\ aqi \in 201..300 => category.label = "Unhealthy"
    /\ aqi \in 301..400 => category.label = "Very Unhealthy"
    /\ aqi \in 401..500 => category.label = "Hazardous"
    /\ aqi > 500 => category.label = "Beyond Index"

\* a negative reading was classified Good
C13_Witness ==
  /\ aqi = 0 - 5
  /\ category.label = "Good"

(* ------------------------------ C14 ----------------------------------- *)
\* C14: for an AQI outside [0, 1000] getAQIColor returns the colour of the
\* clamped value: the colour of 0 below 0, the colour of 1000 above 1000;
\* every input gets an rgb colour.
C14_ClampedColor ==
  color # NoColor =>
    /\ Len(color) = 3 /\ \A k \in 1..3 : color[k] \in 0..255
    /\ aqi < 0 => (color = <<0, 176, 80>> /\ color = GetAQIColor(0))
    /\ aqi > 1000 => (color = <<153, 0, 0>> /\ color = GetAQIColor(1000))

\* a reading beyond the scale was given the colour of 1000
C14_Witness ==
  /\ aqi = 1000 + AqiPad
  /\ color = <<153, 0, 0>>

(* ------------------------------ C15 ----------------------------------- *)
\* C15: at each stop value (0, 100, 250, 500, 750, 1000) getAQIColor returns
\* that stop's own colour, the last stop at 1000 included.
C15_StopColors ==
  color # NoColor =>
    /\ aqi = 0 => color = <<0, 176, 80>>
    /\ aqi = 100 => color = <<0, 176, 80>>
    /\ aqi = 250 => color = <<255, 255, 102>>
    /\ aqi = 500 => color = <<255, 153, 0>>
    /\ aqi = 750 => color = <<255, 51, 0>>
    /\ aqi = 1000 => color = <<153, 0, 0>>

\* the last stop was rendered in its own colour
C15_Witness ==
  /\ aqi = 1000
  /\ color = <<153, 0, 0>>
  /\ FindStops(aqi).upper.value = 1000

(* ------------------------------ C16 ----------------------------------- *)
\* C16: the heatmap transform gives one heat point per station, in the order
\* of the stations, with intensity min(aqi / 500, 1): 0 at 0, 0.5 at 250, 1
\* from 500 on, always within [0, 1] (intensities in thousandths).
C16_HeatPoints ==
  heatOut.built =>
    /\ Len(heatOut.points) = Len(heatIn)
    /\ \A i \in 1..Len(heatIn) :
         LET st == heatIn[i]
             pt == heatOut.points[i]
         IN  /\ pt[1] = st.lat /\ pt[2] = st.lon
             /\ pt[3] \in 0..1000
             /\ 500 * pt[3] = 1000 * (IF st.aqi < 500 THEN st.aqi ELSE 500)
             /\ st.aqi = 0 => pt[3] = 0
             /\ st.aqi = 250 => pt[3] = 500
             /\ st.aqi >= 500 => pt[3] = 1000

\* two stations, at AQI 1000 and 250, became intensities 1 and 0.5 in order
C16_Witness ==
  /\ heatOut.built
  /\ Len(heatIn) = 2
  /\ heatIn[1].aqi = 1000 /\ heatIn[2].aqi = 250
  /\ heatOut.points[1][3] = 1000 /\ heatOut.points[2][3] = 500

(* ------------------------------ C17 ----------------------------------- *)
\* C17: the loading flag is true whenever a bounds-query is in flight.
C17_LoadingWhileInFlight == fetches # {} => loading

(* ------------------------------ C18 ----------------------------------- *)
\* C18: a failing primary search ends the resolution at once: no fallback
\* request is sent for that query, then or later, one failure notification
\* is raised, and the searching flag is false afterwards.
C18_PrimaryFailureEnds ==
  /\ [](\A i \in TaskIds("search") :
          (hist[i].st = "fail" /\ hist[i].via = "primary")
            => (SentFor("nominatim", i) = {} /\ \A s \in searches : s.id # i))
  /\ [][ (Completes(lastSearch) /\ ~lastSearch'.ok /\ lastSearch'.via = "primary")
           => /\ sent' = sent
              /\ Raises(MSG_SEARCH_FAILED)
              /\ isSearching' = FALSE ]_vars

\* the primary search failed and nothing but it was ever sent
C18_Witness ==
  /\ lastSearch.id # 0
  /\ ~lastSearch.ok
  /\ lastSearch.via = "primary"
  /\ Len(sent) = 2
  /\ sent[2].svc = "search"
  /\ searches = {}
  /\ ~isSearching

(* ------------------------------ C19 ----------------------------------- *)
\* C19: once a result is clicked the list is hidden and the query empty, and
\* until the user types or focuses the input again the list stays hidden and
\* the result set is not replaced, whatever response arrives.
C19_ListStaysClosed ==
  [][ afterSelect'
        => /\ ~showResults'
           /\ query' = ""
           /\ afterSelect => results' = results ]_vars

(* ------------------------------ C20 ----------------------------------- *)
\* C20: at most one heat layer is attached to the map; an attached layer is
\* the one the component refers to and was built from the current station
\* set; none is attached while heatmap mode is off or the set is empty.
C20_OneHeatLayer ==
  /\ Cardinality(mapLayers) <= 1
  /\ \A l \in mapLayers :
       /\ l = heatmapLayerRef
       /\ Len(l.points) = Len(stations)
       /\ \A i \in 1..Len(stations) :
            /\ l.points[i][1] = stations[i].lat
            /\ l.points[i][2] = stations[i].lon
  /\ (~showHeatmap \/ stations = <<>>) => mapLayers = {}

\* the heat layer was rebuilt for a new station set and the old one removed
C20_Witness ==
  /\ showHeatmap
  /\ layerSeq >= 2
  /\ stations = <<St2, St1>>
  /\ Cardinality(mapLayers) = 1
  /\ heatmapLayerRef.id = layerSeq

====
